---- MODULE Spec2Model ----
(***************************************************************************)
(* SortedContainers<T> (src/src/sorted_containers.rs): a sorted collection  *)
(* of unique elements kept as a sequence of sorted buckets (data), one      *)
(* boundary value per bucket (maxes) and a cumulative-count table (index).   *)
(* Positions are 0-based as in the source; a TLA+ sequence s holds the      *)
(* source's s[i] at s[i + 1].                                               *)
(***************************************************************************)
EXTENDS Integers, Sequences, FiniteSets, TLC

\* Elements are the integers 1..MaxVal (T = i32 in the tests).
MaxVal == 6
\* The thresholds of the expand and shrink predicates, which are 2000 and
\* 500 in the default pair (len > 2000, len < 500), scaled down.
ExpandLimit == 3
ShrinkLimit == 2
\* The calls that can add an element are made while len() < MaxLen.
MaxLen == 6

Values == 1..MaxVal
OrderTypes == {"Asc", "Desc"}
\* the value of a result that carries none
NoVal == 0 - 1

VARIABLES
    data,        \* Vec<Vec<T>>: the buckets
    maxes,       \* Vec<T>: one boundary value per bucket
    index,       \* Vec<usize>: cumulative bucket lengths
    order_type,  \* OrderType, fixed at construction
    len,         \* usize: the element count
    stored,      \* reference set: inserted with Ok and not removed since
    aborted,     \* a call has panicked
    iters,       \* the SortedContainerIter values the caller holds
    strategies   \* the expand and shrink predicates, fixed at construction

vars == <<data, maxes, index, order_type, len, stored, aborted, iters, strategies>>

\* The predicate pairs a collection is constructed with:
\*   "Threshold"    |len, _| len > ExpandLimit,  |len, _| len < ShrinkLimit
\*                   (the form of the default pair)
\*   "ByPosition"   |len, pos| pos == 0 && len > ExpandLimit,
\*                   |len, pos| pos != 0 && len < ShrinkLimit
\*   "NeverShrink"  |len, _| len > ExpandLimit,  |_, _| false
StrategyKinds == {"Threshold", "ByPosition", "NeverShrink"}

\* the caller holds at most two iterators at a time
IterIds == {"a", "b"}

\* ------------------------------------------------------------------------
\* helpers on sequences

At(s, i) == s[i + 1]

SetAt(s, i, x) == [s EXCEPT ![i + 1] = x]

\* Vec::insert(i, x)
VecInsert(s, i, x) == SubSeq(s, 1, i) \o <<x>> \o SubSeq(s, i + 1, Len(s))

\* Vec::remove(i), the vector that is left
VecRemove(s, i) == SubSeq(s, 1, i) \o SubSeq(s, i + 2, Len(s))

RECURSIVE Flatten(_)
Flatten(d) == IF d = <<>> THEN <<>> ELSE Head(d) \o Flatten(Tail(d))

RECURSIVE SumLens(_)
SumLens(d) == IF d = <<>> THEN 0 ELSE Len(Head(d)) + SumLens(Tail(d))

\* the collection as one record, the source's `self`
Self == [data |-> data, maxes |-> maxes, index |-> index, len |-> len]

\* ------------------------------------------------------------------------
\* results

Ok(r) == [kind |-> "Ok", val |-> r]
ErrAlreadyExist(v) == [kind |-> "ElementAlreadyExist", val |-> v]
ErrNotFound(v) == [kind |-> "ElementNotFound", val |-> v]
Some(v) == [kind |-> "Some", val |-> v]
None == [kind |-> "None", val |-> NoVal]
Unit == [kind |-> "Unit", val |-> NoVal]
Panic == [kind |-> "Panic", val |-> NoVal]

\* ------------------------------------------------------------------------
\* strategies

\* (self.expand_strategy)(l, pos)
expand_strategy(l, pos) ==
    IF strategies = "ByPosition" THEN pos = 0 /\ l > ExpandLimit
    ELSE l > ExpandLimit

\* (self.shrink_strategy)(l, pos)
shrink_strategy(l, pos) ==
    IF strategies = "ByPosition" THEN pos # 0 /\ l < ShrinkLimit
    ELSE IF strategies = "NeverShrink" THEN FALSE
    ELSE l < ShrinkLimit

\* ------------------------------------------------------------------------
\* search

\* the while loop of bisect: found at low, or low = high the insertion point
RECURSIVE bisect_loop(_, _, _, _)
bisect_loop(values, value, low, high) ==
    IF low < high
    THEN LET middle == (high + low) \div 2
         IN  IF At(values, middle) < value
             THEN IF order_type = "Asc"
                  THEN bisect_loop(values, value, middle + 1, high)
                  ELSE bisect_loop(values, value, low, middle)
             ELSE IF At(values, middle) = value
             THEN [found |-> TRUE, low |-> middle, high |-> high]
             ELSE IF order_type = "Asc"
                  THEN bisect_loop(values, value, low, middle)
                  ELSE bisect_loop(values, value, middle + 1, high)
    ELSE [found |-> FALSE, low |-> low, high |-> high]

\* the second correction of the bucket position in descending order
desc_nudge(s, value, low) ==
    IF low > 0 /\ At(s.maxes, low) < value THEN low - 1 ELSE low

\* the correction of the bucket position in descending order
desc_correction(s, value, low) ==
    desc_nudge(s, value, IF low = Len(s.maxes) THEN low - 1 ELSE low)

\* what bisect returns once its loop has ended as r
bisect_result(s, value, bisect_maxes, r) ==
    IF r.found THEN [ok |-> TRUE, idx |-> r.low]
    ELSE IF bisect_maxes
         THEN [ok |-> TRUE,
               idx |-> IF order_type = "Asc" THEN r.low
                       ELSE desc_correction(s, value, r.low)]
         ELSE [ok |-> FALSE,
               idx |-> IF order_type = "Asc" THEN r.low ELSE r.high]

bisect(s, values, value, bisect_maxes) ==
    bisect_result(s, value, bisect_maxes, bisect_loop(values, value, 0, Len(values)))

SearchPanic == [panic |-> TRUE, ok |-> FALSE, pos |-> 0, idx |-> 0]

SearchResult(pos, r) == [panic |-> FALSE, ok |-> r.ok, pos |-> pos, idx |-> r.idx]

\* the search within the bucket at pos; there must be one
search_bucket(s, value, pos) ==
    IF pos >= Len(s.data) THEN SearchPanic
    ELSE SearchResult(pos, bisect(s, At(s.data, pos), value, FALSE))

\* pos is clamped to the last bucket; `pos -= 1` panics at 0
search_clamped(s, value, pos) ==
    IF Len(s.data) = pos
    THEN IF pos = 0 THEN SearchPanic ELSE search_bucket(s, value, pos - 1)
    ELSE search_bucket(s, value, pos)

\* Ok((pos, idx)) or Err((pos, idx))
search_element(s, value) ==
    search_clamped(s, value,
        IF Len(s.maxes) > 1 THEN bisect(s, s.maxes, value, TRUE).idx ELSE 0)

\* ------------------------------------------------------------------------
\* rank index

RECURSIVE index_from(_, _, _)
index_from(d, i, acc) ==
    IF i >= Len(d) THEN <<>>
    ELSE <<acc + Len(At(d, i))>> \o index_from(d, i + 1, acc + Len(At(d, i)))

is_empty(s) == s.len = 0

\* the index is pushed whatever the number of buckets
build_index_unguarded(s) == [s EXCEPT !.index = <<0>> \o index_from(s.data, 0, 0)]

build_index(s) ==
    IF is_empty(s) \/ Len(s.maxes) < 2
    THEN [s EXCEPT !.index = <<>>]
    ELSE [s EXCEPT !.index = <<0>> \o index_from(s.data, 0, 0)]

\* the index is left as it was
update_index_absent(s, pos, values_len) == s

update_index(s, pos, values_len) ==
    IF Len(s.maxes) > 1
    THEN [s EXCEPT !.index =
              [i \in 1..Len(s.index) |->
                  IF i - 1 >= pos + 1 THEN s.index[i] + values_len ELSE s.index[i]]]
    ELSE s

index_from_tuple(s, pos, idx) ==
    IF Len(s.data) > 1 THEN At(s.index, pos) + idx ELSE idx

\* the binary search of the cumulative counts: Ok(middle + 1) or Err(low)
RECURSIVE positional_search(_, _, _, _)
positional_search(s, position, low, high) ==
    IF low < high
    THEN LET middle == (high + low) \div 2
         IN  IF At(s.index, middle) < position
             THEN positional_search(s, position, middle + 1, high)
             ELSE IF At(s.index, middle) = position THEN middle + 1
             ELSE positional_search(s, position, low, middle)
    ELSE low

TuplePanic == [panic |-> TRUE, pos |-> 0, idx |-> 0]

\* the bucket is found - 1; the source panics where it indexes out of
\* bounds or subtracts below zero
tuple_from_found(s, i, found) ==
    IF found = 0 \/ found - 1 >= Len(s.index) THEN TuplePanic
    ELSE IF At(s.index, found - 1) > i THEN TuplePanic
    ELSE [panic |-> FALSE, pos |-> found - 1, idx |-> i - At(s.index, found - 1)]

\* rank -> (bucket, offset)
tuple_from_index(s, i) ==
    IF Len(s.data) = 0 THEN TuplePanic
    ELSE IF i < Len(At(s.data, 0)) THEN [panic |-> FALSE, pos |-> 0, idx |-> i]
    ELSE tuple_from_found(s, i, positional_search(s, i, 0, Len(s.index)))

\* ------------------------------------------------------------------------
\* rebalancing

\* a slip: the last element is the boundary value in both directions
extreme_always_last(vec) == At(vec, Len(vec) - 1)

\* the boundary value of a bucket
extreme(vec) == IF order_type = "Asc" THEN At(vec, Len(vec) - 1) ELSE At(vec, 0)

\* the bucket at pos becomes old_vec, new_vec goes to pos + 1
split_bucket(s, pos, old_vec, new_vec) ==
    build_index(
        [s EXCEPT !.maxes = SetAt(VecInsert(s.maxes, pos + 1, extreme(new_vec)),
                                  pos, extreme(old_vec)),
                  !.data = VecInsert(SetAt(s.data, pos, old_vec), pos + 1, new_vec)])

\* the bucket at pos is cut at split_at
split_at_offset(s, pos, split_at) ==
    split_bucket(s, pos, SubSeq(At(s.data, pos), 1, split_at),
                 SubSeq(At(s.data, pos), split_at + 1, Len(At(s.data, pos))))

\* the bucket at pos is cut in two, the second half goes to pos + 1
expand(s, pos) == split_at_offset(s, pos, Len(At(s.data, pos)) \div 2)

\* a slip: on a tie the left neighbour is taken
vec_to_expand_tie_left(s, pos) ==
    IF pos = 0 THEN 1
    ELSE IF pos = Len(s.data) - 1 THEN Len(s.data) - 2
    ELSE IF Len(At(s.data, pos - 1)) <= Len(At(s.data, pos + 1)) THEN pos - 1
    ELSE pos + 1

\* the neighbour the bucket at pos is merged with
vec_to_expand(s, pos) ==
    IF pos = 0 THEN 1
    ELSE IF pos = Len(s.data) - 1 THEN Len(s.data) - 2
    ELSE IF Len(At(s.data, pos - 1)) < Len(At(s.data, pos + 1)) THEN pos - 1
    ELSE pos + 1

\* a slip: the bucket at from is put in front of the bucket at into
merge_into_in_front(s, into, from) ==
    build_index(
        [s EXCEPT !.data = VecRemove(SetAt(s.data, into,
                                At(s.data, from) \o At(s.data, into)), from),
                  !.maxes = VecRemove(SetAt(s.maxes, into, At(s.maxes, from)), from)])

\* the bucket at from is appended to the bucket at into and removed, and so
\* is its boundary value
merge_into(s, into, from) ==
    build_index(
        [s EXCEPT !.data = VecRemove(SetAt(s.data, into,
                                At(s.data, into) \o At(s.data, from)), from),
                  !.maxes = VecRemove(SetAt(s.maxes, into, At(s.maxes, from)), from)])

merge_with(s, pos, other) ==
    IF other > pos THEN merge_into(s, pos, other) ELSE merge_into(s, other, pos)

\* the bucket at pos is merged with a neighbour
shrink(s, pos) == merge_with(s, pos, vec_to_expand(s, pos))

\* ------------------------------------------------------------------------
\* the operations, as functions of the collection: the collection they leave,
\* the value they return and the rebalancing they ran

Outcome(s, ret, rebalanced) == [s |-> s, ret |-> ret, rebalanced |-> rebalanced]

\* the first element is pushed to bucket 0 of d
push_first(s, d, value) ==
    [s EXCEPT !.data = SetAt(d, 0, Append(At(d, 0), value)),
              !.maxes = Append(s.maxes, value),
              !.len = s.len + 1]

\* the collection holds no boundary value: the bucket is made if there is none
first_element(s, value) ==
    push_first(s, IF Len(s.data) = 0 THEN <<<<>>>> ELSE s.data, value)

\* the rank is computed, then the bucket is split if the strategy says so
rank_then_expand(s, pos, idx) ==
    IF expand_strategy(Len(At(s.data, pos)), idx)
    THEN Outcome(expand(s, pos), Ok(index_from_tuple(s, pos, idx)), "expand")
    ELSE Outcome(s, Ok(index_from_tuple(s, pos, idx)), "none")

\* a slip: the boundary value stays behind
raise_max_absent(s, value, pos) == s

\* the boundary value follows an element greater than it
raise_max(s, value, pos) ==
    IF value > At(s.maxes, pos)
    THEN [s EXCEPT !.maxes = SetAt(s.maxes, pos, value)]
    ELSE s

\* the element goes to offset idx of the bucket at pos
insert_at(s, value, pos, idx) ==
    [s EXCEPT !.data = SetAt(s.data, pos, VecInsert(At(s.data, pos), idx, value)),
              !.len = s.len + 1]

\* the element is absent and is placed at (pos, idx)
place_element(s, value, pos, idx) ==
    rank_then_expand(
        update_index(insert_at(raise_max(s, value, pos), value, pos, idx), pos, 1),
        pos, idx)

\* the element at (pos, idx) is overwritten
overwrite(s, value, pos, idx) ==
    Outcome([s EXCEPT !.data = SetAt(s.data, pos, SetAt(At(s.data, pos), idx, value))],
            Ok(index_from_tuple(s, pos, idx)), "none")

\* process_element once the search has returned found
process_found(s, value, process_type, found) ==
    IF found.panic THEN Outcome(s, Panic, "none")
    ELSE IF found.ok
    THEN IF process_type \in {"Update", "InsertOrUpdate"}
         THEN overwrite(s, value, found.pos, found.idx)
         ELSE Outcome(s, ErrAlreadyExist(value), "none")
    ELSE IF process_type \in {"Insert", "InsertOrUpdate"}
         THEN place_element(s, value, found.pos, found.idx)
         ELSE Outcome(s, ErrNotFound(value), "none")

process_element(s, value, process_type) ==
    IF Len(s.maxes) = 0 /\ process_type \in {"Insert", "InsertOrUpdate"}
    THEN Outcome(first_element(s, value), Ok(0), "none")
    ELSE IF Len(s.maxes) = 0 /\ process_type = "Update"
    THEN Outcome(s, ErrNotFound(value), "none")
    ELSE process_found(s, value, process_type, search_element(s, value))

insert(s, value) == process_element(s, value, "Insert")

update(s, value) == process_element(s, value, "Update")

insert_or_update(s, value) == process_element(s, value, "InsertOrUpdate")

\* remove once the element is out of the bucket at pos and counted out
after_removal(s, pos, removed_val) ==
    IF is_empty(s)
    THEN Outcome([s EXCEPT !.maxes = <<>>, !.data = <<>>, !.index = <<>>],
                 Some(removed_val), "none")
    ELSE IF Len(s.maxes) > 1 /\ shrink_strategy(Len(At(s.data, pos)), pos)
    THEN Outcome(shrink(s, pos), Some(removed_val), "shrink")
    ELSE Outcome(s, Some(removed_val), "none")

\* the element leaves offset idx of the bucket at pos
remove_at(s, pos, idx) ==
    [s EXCEPT !.data = SetAt(s.data, pos, VecRemove(At(s.data, pos), idx))]

\* a slip: the removed element stays counted
count_out_absent(s) == s

count_out(s) == [s EXCEPT !.len = s.len - 1]

\* a slip: a removal that finds nothing is counted out all the same
remove_found_counts_miss(s, found) ==
    IF found.panic THEN Outcome(s, Panic, "none")
    ELSE IF ~found.ok THEN Outcome(count_out(s), None, "none")
    ELSE after_removal(
             count_out(update_index(remove_at(s, found.pos, found.idx), found.pos, 0 - 1)),
             found.pos, At(At(s.data, found.pos), found.idx))

\* remove once the search has returned found
remove_found(s, found) ==
    IF found.panic THEN Outcome(s, Panic, "none")
    ELSE IF ~found.ok THEN Outcome(s, None, "none")
    ELSE after_removal(
             count_out(update_index(remove_at(s, found.pos, found.idx), found.pos, 0 - 1)),
             found.pos, At(At(s.data, found.pos), found.idx))

remove(s, value) == remove_found(s, search_element(s, value))

\* the rank index survives
clear_keeps_index(s) == [s EXCEPT !.data = <<>>, !.maxes = <<>>, !.len = 0]

clear(s) == [s EXCEPT !.data = <<>>, !.maxes = <<>>, !.index = <<>>, !.len = 0]

find_found(s, found) ==
    IF found.panic THEN Panic
    ELSE IF found.ok THEN Some(index_from_tuple(s, found.pos, found.idx))
    ELSE None

find(s, element) == find_found(s, search_element(s, element))

\* &self.data[pos.0][pos.1]
element_at(s, pos) ==
    IF pos.panic \/ pos.pos >= Len(s.data) THEN Panic
    ELSE IF pos.idx >= Len(At(s.data, pos.pos)) THEN Panic
    ELSE Some(At(At(s.data, pos.pos), pos.idx))

\* Index<usize>: collection[i]
get(s, i) == IF ~(i < s.len) THEN Panic ELSE element_at(s, tuple_from_index(s, i))

\* the loop `for i in start..end`: one &self.data[pos.0][pos.1] per rank
RECURSIVE range_collect(_, _, _)
range_collect(s, i, end) ==
    IF i >= end THEN <<>>
    ELSE <<element_at(s, tuple_from_index(s, i))>> \o range_collect(s, i + 1, end)

\* Some(vec) unless vec is empty
range_vec(elems) ==
    IF \E k \in DOMAIN elems : elems[k].kind = "Panic" THEN Panic
    ELSE IF elems = <<>> THEN None
    ELSE Some([k \in DOMAIN elems |-> elems[k].val])

\* the loop runs to end inclusive
range_inclusive(s, start, end) ==
    IF start > end \/ start >= s.len \/ end >= s.len THEN Panic
    ELSE range_vec(range_collect(s, start, end + 1))

range(s, start, end) ==
    IF start > end THEN Panic
    ELSE IF start >= s.len THEN Panic
    ELSE IF end >= s.len THEN Panic
    ELSE range_vec(range_collect(s, start, end))

\* ------------------------------------------------------------------------
\* SortedContainerIter (src/src/sorted_container_iter.rs); its data field
\* is a shared borrow of the collection's buckets, passed here as d

\* an iterator the caller holds: the fields pos and idx, the number of
\* elements it has yielded and whether it has returned None
Cursor(pos, idx, yielded, ended) ==
    [live |-> TRUE, pos |-> pos, idx |-> idx, yielded |-> yielded, ended |-> ended]

NoIter == [live |-> FALSE, pos |-> 0, idx |-> 0, yielded |-> 0, ended |-> FALSE]

iter(s) == Cursor(0, 0, 0, FALSE)

Stepped(it, ret) == [it |-> it, ret |-> ret]

\* if self.idx >= self.data[self.pos].len() { self.pos += 1; self.idx = 0; }
iter_skip(d, it) ==
    IF it.idx >= Len(At(d, it.pos))
    THEN [it EXCEPT !.pos = it.pos + 1, !.idx = 0]
    ELSE it

\* None past the last bucket, else self.idx += 1 and the element before it
iter_yield(d, it) ==
    IF it.pos >= Len(d) THEN Stepped([it EXCEPT !.ended = TRUE], None)
    ELSE IF it.idx >= Len(At(d, it.pos)) THEN Stepped(it, Panic)
    ELSE Stepped([it EXCEPT !.idx = it.idx + 1, !.yielded = it.yielded + 1],
                 Some(At(At(d, it.pos), it.idx)))

\* Iterator::next; self.data[self.pos] panics past the last bucket
next(d, it) ==
    IF it.pos >= Len(d) THEN Stepped(it, Panic)
    ELSE iter_yield(d, iter_skip(d, it))

\* SortedContainers::new as a value
new == [data |-> <<<<>>>>, maxes |-> <<>>, index |-> <<>>, len |-> 0]

\* ------------------------------------------------------------------------
\* the state machine

\* SortedContainers::new(order_type), or new_with_strategies(order_type,
\* expand_strategy, shrink_strategy) with one of the predicate pairs
Init ==
    /\ data = new.data
    /\ maxes = new.maxes
    /\ index = new.index
    /\ order_type \in OrderTypes
    /\ len = new.len
    /\ stored = {}
    /\ aborted = FALSE
    /\ iters = [id \in IterIds |-> NoIter]
    /\ strategies \in StrategyKinds

\* no iterator borrows the collection
Unborrowed == \A id \in IterIds : ~iters[id].live

\* a call leaves the collection out.s; one that panics aborts the program
Return(out) ==
    /\ Unborrowed
    /\ data' = out.s.data
    /\ maxes' = out.s.maxes
    /\ index' = out.s.index
    /\ len' = out.s.len
    /\ aborted' = (out.ret.kind = "Panic")
    /\ UNCHANGED <<order_type, iters, strategies>>

\* the reference set follows the calls that say they stored the value
Stores(out, value) ==
    stored' = IF out.ret.kind = "Ok" THEN stored \cup {value} ELSE stored

Insert ==
    \E value \in Values :
        /\ ~aborted
        /\ len < MaxLen
        /\ Return(insert(Self, value))
        /\ Stores(insert(Self, value), value)

Update ==
    \E value \in Values :
        /\ ~aborted
        /\ Return(update(Self, value))
        /\ Stores(update(Self, value), value)

InsertOrUpdate ==
    \E value \in Values :
        /\ ~aborted
        /\ len < MaxLen
        /\ Return(insert_or_update(Self, value))
        /\ Stores(insert_or_update(Self, value), value)

Remove ==
    \E value \in Values :
        /\ ~aborted
        /\ Return(remove(Self, value))
        /\ stored' = IF remove(Self, value).ret.kind = "Some"
                     THEN stored \ {value} ELSE stored

Clear ==
    /\ ~aborted
    /\ Return(Outcome(clear(Self), Unit, "none"))
    /\ stored' = {}

Find ==
    \E value \in Values :
        /\ ~aborted
        /\ aborted' = (find(Self, value).kind = "Panic")
        /\ UNCHANGED <<data, maxes, index, order_type, len, stored, iters, strategies>>

Get ==
    \E i \in 0..MaxLen :
        /\ ~aborted
        /\ aborted' = (get(Self, i).kind = "Panic")
        /\ UNCHANGED <<data, maxes, index, order_type, len, stored, iters, strategies>>

Range ==
    \E start \in 0..MaxLen :
        \E end \in 0..MaxLen :
            /\ ~aborted
            /\ aborted' = (range(Self, start, end).kind = "Panic")
            /\ UNCHANGED <<data, maxes, index, order_type, len, stored, iters, strategies>>

Next == Insert \/ Update \/ InsertOrUpdate \/ Remove \/ Clear \/ Find \/ Get \/ Range

Spec == Init /\ [][Next]_vars

\* let it = collection.iter()
Iter ==
    \E id \in IterIds :
        /\ ~aborted
        /\ ~iters[id].live
        /\ iters' = [iters EXCEPT ![id] = iter(Self)]
        /\ UNCHANGED <<data, maxes, index, order_type, len, stored, aborted, strategies>>

\* it.next()
IterNext ==
    \E id \in IterIds :
        /\ ~aborted
        /\ iters[id].live
        /\ iters' = [iters EXCEPT ![id] = next(data, iters[id]).it]
        /\ aborted' = (next(data, iters[id]).ret.kind = "Panic")
        /\ UNCHANGED <<data, maxes, index, order_type, len, stored, strategies>>

\* the iterator goes out of scope and its borrow ends
IterDrop ==
    \E id \in IterIds :
        /\ ~aborted
        /\ iters[id].live
        /\ iters' = [iters EXCEPT ![id] = NoIter]
        /\ UNCHANGED <<data, maxes, index, order_type, len, stored, aborted, strategies>>

\* the collection is changed while no iterator is held, and iterated
NextIter ==
    Insert \/ InsertOrUpdate \/ Update \/ Remove \/ Clear \/ Iter \/ IterNext \/ IterDrop

SpecIter == Init /\ [][NextIter]_vars

\* only insert and insert_or_update are called
NextInsert == Insert \/ InsertOrUpdate

SpecInsert == Init /\ [][NextInsert]_vars

\* only insert, insert_or_update, update and remove are called
NextCalls == Insert \/ InsertOrUpdate \/ Update \/ Remove

SpecCalls == Init /\ [][NextCalls]_vars

\* ------------------------------------------------------------------------
\* what the properties speak of

\* the elements in bucket order
Flat == Flatten(data)

Elements == {Flat[i] : i \in DOMAIN Flat}

\* a comes before b in the order direction
Before(a, b) == IF order_type = "Asc" THEN a < b ELSE a > b

StrictlyOrdered(seq) == \A i \in 1..(Len(seq) - 1) : Before(seq[i], seq[i + 1])

\* the number of elements of S ordered before v
RankIn(S, v) == Cardinality({w \in S : Before(w, v)})

Occurrences(seq, v) == Cardinality({i \in DOMAIN seq : seq[i] = v})

\* a removal has taken the boundary element of some bucket
StaleBoundary ==
    \E i \in 1..Len(data) :
        /\ i <= Len(maxes)
        /\ data[i] # <<>>
        /\ maxes[i] # extreme(data[i])

\* ------------------------------------------------------------------------
\* properties

\* C1: after any sequence of insert and insert_or_update calls, in either
\* order direction, the elements read by rank 0 .. len() - 1 are strictly
\* increasing (ascending) or strictly decreasing (descending), and so is the
\* concatenation of the buckets, bucket splits included.
C1_InsertsKeepOrder ==
    /\ \A r \in 0..(len - 1) : get(Self, r).kind = "Some"
    /\ \A r \in 0..(len - 2) : Before(get(Self, r).val, get(Self, r + 1).val)
    /\ StrictlyOrdered(Flat)

\* C1 witness: a descending collection that has split twice and is full
C1_Witness ==
    /\ order_type = "Desc"
    /\ Len(data) >= 3
    /\ len = MaxLen
    /\ get(Self, 0).val > get(Self, len - 1).val

\* C2: after any sequence of insert, insert_or_update, update and remove
\* calls, in either order direction, every bucket is sorted in the order
\* direction, no value is stored twice and the sequence read by rank is
\* strictly ordered.
C2_SortedAndUnique ==
    /\ \A i \in 1..Len(data) : StrictlyOrdered(data[i])
    /\ \A v \in Values : Occurrences(Flat, v) <= 1
    /\ \A r \in 0..(len - 2) :
          /\ get(Self, r).kind = "Some"
          /\ get(Self, r + 1).kind = "Some"
          /\ Before(get(Self, r).val, get(Self, r + 1).val)

\* C3: find(v) is Some(r) exactly when v was inserted and not removed since,
\* with r the number of stored elements ordered before v, and None exactly
\* when v is not stored.
C3_FindRefinesSet ==
    \A v \in Values :
        find(Self, v) = IF v \in stored THEN Some(RankIn(stored, v)) ELSE None

\* C4: for every rank r with 0 <= r < len(), find(&collection[r]) == Some(r).
C4_RankRoundTrip ==
    \A r \in 0..(len - 1) :
        /\ get(Self, r).kind = "Some"
        /\ find(Self, get(Self, r).val) = Some(r)

\* C5: insert(v) returns Err(ElementAlreadyExist(v)) if and only if an element
\* equal to v is stored, and succeeds in every other state.
C5_InsertFailsIffStored ==
    \A v \in Values :
        insert(Self, v).ret = IF v \in Elements THEN ErrAlreadyExist(v)
                              ELSE Ok(insert(Self, v).ret.val)

\* C6: update(v) returns Err(ElementNotFound(v)) if and only if no element
\* equal to v is stored; otherwise it returns Ok(r), r the rank of the element.
C6_UpdateFailsIffAbsent ==
    \A v \in Values :
        update(Self, v).ret = IF v \in Elements THEN Ok(RankIn(Elements, v))
                              ELSE ErrNotFound(v)

\* C7: insert_or_update(v) returns Ok in every state; afterwards v is stored
\* exactly once, and len() grew by one if v was absent and is unchanged if v
\* was present.
C7_InsertOrUpdateStoresOnce ==
    \A v \in Values :
        /\ insert_or_update(Self, v).ret.kind = "Ok"
        /\ Occurrences(Flatten(insert_or_update(Self, v).s.data), v) = 1
        /\ insert_or_update(Self, v).s.len = IF v \in Elements THEN len ELSE len + 1

\* C8: remove(&v) on a collection that stores v returns Some(v), decreases
\* len() by one, leaves every other element stored in the same relative order
\* and afterwards find(&v) is None; on a collection that does not store v it
\* returns None.
C8_RemoveTakesOne ==
    \A v \in Values :
        IF v \in Elements
        THEN /\ remove(Self, v).ret = Some(v)
             /\ remove(Self, v).s.len = len - 1
             /\ Flatten(remove(Self, v).s.data) = SelectSeq(Flat, LAMBDA w : w # v)
             /\ find(remove(Self, v).s, v) = None
        ELSE remove(Self, v).ret = None

\* C9: when insert(v) or insert_or_update(v) returns Ok(r), then after the
\* call collection[r] == v and r is the number of stored elements ordered
\* before v, with or without a bucket split.
C9_ReturnedRankIsRank ==
    \A v \in Values :
        \A process_type \in {"Insert", "InsertOrUpdate"} :
            LET out == process_element(Self, v, process_type)
            IN  out.ret.kind = "Ok" =>
                    /\ get(out.s, out.ret.val) = Some(v)
                    /\ out.ret.val = RankIn(Elements \ {v}, v)

\* C10: len() is the sum of the lengths of all buckets, and is_empty() holds
\* exactly when that sum is 0.
C10_LenIsSumOfBuckets ==
    /\ len = SumLens(data)
    /\ is_empty(Self) <=> (SumLens(data) = 0)

\* C10 witness: several buckets after a removal that changed neither the
\* bucket count nor the boundary values
C10_Witness ==
    /\ Len(data) >= 2
    /\ StaleBoundary
    /\ ~is_empty(Self)
    /\ len = SumLens(data)

\* C11: after any mutation (insert, insert_or_update, update, remove, the
\* splits and merges they cause included), for every bucket i the boundary
\* maxes[i] is the bucket's extreme: its last element in ascending order, its
\* first element in descending order.
C11_BoundaryIsExtreme ==
    \A i \in 1..Len(data) :
        data[i] # <<>> => (i <= Len(maxes) /\ maxes[i] = extreme(data[i]))

\* C12: clear() called in any reachable state leaves len() = 0, is_empty()
\* true and the bucket, boundary and rank-index sequences empty; an insert(v)
\* after it returns Ok(0) and leaves the collection holding exactly v, as on a
\* freshly constructed collection; a second clear() changes nothing.
C12_ClearResets ==
    LET c == clear(Self)
    IN  /\ c.len = 0
        /\ is_empty(c)
        /\ c.data = <<>>
        /\ c.maxes = <<>>
        /\ c.index = <<>>
        /\ \A v \in Values :
               /\ insert(c, v).ret = Ok(0)
               /\ Flatten(insert(c, v).s.data) = <<v>>
               /\ insert(c, v).s = insert(new, v).s
        /\ clear(c) = c

\* C12 witness: clear() empties a full collection of several buckets with a
\* rank index, and the insert after it starts again at rank 0
C12_Witness ==
    /\ Len(data) >= 2
    /\ index # <<>>
    /\ len = MaxLen
    /\ clear(Self).data = <<>>
    /\ insert(clear(Self), MaxVal).ret = Ok(0)

\* C13: when remove takes the last remaining element, the collection is left
\* in the internal state of a freshly constructed one: exactly one empty
\* bucket, an empty boundary sequence, an empty rank index and count 0.
C13_RemoveLastResets ==
    \A v \in Values :
        (len = 1 /\ remove(Self, v).ret.kind = "Some") => remove(Self, v).s = new

\* C14: in every reachable state (fresh, after clear(), after the last
\* element was removed) find and remove do not abort for any argument, and
\* return None for a value that is not stored.
C14_AbsentIsNoneNeverAbort ==
    \A v \in Values :
        /\ find(Self, v).kind # "Panic"
        /\ remove(Self, v).ret.kind # "Panic"
        /\ v \notin Elements =>
               /\ find(Self, v) = None
               /\ remove(Self, v).ret = None

C19_RankIndexIsCumulative ==
    IF Len(data) >= 2
    THEN /\ Len(index) = Len(data) + 1
         /\ At(index, 0) = 0
         /\ \A i \in 0..(Len(data) - 1) :
                At(index, i + 1) = At(index, i) + Len(At(data, i))
    ELSE index = <<>>

\* C19 witness: three buckets whose index was shifted by a removal that left
\* the bucket count alone
C19_Witness ==
    /\ Len(data) >= 3
    /\ StaleBoundary
    /\ Len(index) = Len(data) + 1
    /\ At(index, Len(data)) = len

\* C20: after every public operation no bucket has a length for which the
\* expand predicate holds, the buckets produced by a merge included.
C20_BucketsInBand ==
    \A i \in 0..(Len(data) - 1) : ~expand_strategy(Len(At(data, i)), i)

\* C17: in every reachable state with at least one element, an iterator
\* obtained from iter() yields exactly len() elements, the k-th being
\* collection[k], and then None; two iterators held at once each do so,
\* however their next() calls interleave.
C17_IterReadsRanks ==
    \A id \in IterIds :
        (len >= 1 /\ iters[id].live /\ ~iters[id].ended) =>
            /\ iters[id].yielded <= len
            /\ next(data, iters[id]).ret =
                   IF iters[id].yielded < len THEN get(Self, iters[id].yielded) ELSE None
            /\ iters[id].yielded = 0 => iters[id] = iter(Self)

\* C18: the first next() of an iterator over an empty collection returns
\* None, whether the collection is fresh, was cleared or lost its last
\* element to remove.
C18_EmptyIterEndsAtOnce ==
    len = 0 => next(data, iter(Self)).ret = None

\* C21: whenever the collection holds at least one element, there are as
\* many buckets as boundary values and no bucket is empty, after every public
\* operation and for every pair of predicates the collection was built with.
C21_BucketsMatchBoundaries ==
    len >= 1 =>
        /\ Len(data) = Len(maxes)
        /\ \A i \in 0..(Len(data) - 1) : At(data, i) # <<>>

\* C22: when an insertion leaves the bucket at position p with a length n for
\* which the expand predicate holds, bucket p keeps its first n \div 2
\* elements and a new bucket with the other n - n \div 2 elements is put at
\* position p + 1; there is one bucket more and one boundary value more, the
\* boundary values of p and p + 1 are their extremes, and the rank index is
\* rebuilt from the new bucket lengths.
C22_SplitCutsInHalf ==
    \A v \in Values :
        \A process_type \in {"Insert", "InsertOrUpdate"} :
            LET found == search_element(Self, v)
                out == process_element(Self, v, process_type)
                p == found.pos
                bucket == VecInsert(At(data, p), found.idx, v)
                n == Len(bucket)
            IN  (/\ Len(maxes) > 0
                 /\ ~found.panic
                 /\ ~found.ok
                 /\ expand_strategy(n, p)) =>
                    /\ out.s.data = VecInsert(SetAt(data, p, SubSeq(bucket, 1, n \div 2)),
                                              p + 1, SubSeq(bucket, n \div 2 + 1, n))
                    /\ Len(out.s.data) = Len(data) + 1
                    /\ Len(out.s.maxes) = Len(maxes) + 1
                    /\ At(out.s.maxes, p) = extreme(At(out.s.data, p))
                    /\ At(out.s.maxes, p + 1) = extreme(At(out.s.data, p + 1))
                    /\ out.s.index = <<0>> \o index_from(out.s.data, 0, 0)

\* the bucket a removal of v is made from, or -1
RemovalBucket(v) ==
    IF search_element(Self, v).panic \/ ~search_element(Self, v).ok THEN 0 - 1
    ELSE search_element(Self, v).pos

\* the buckets once the copy of v that the search found has left bucket p
AfterTaking(v, p) ==
    SetAt(data, p, VecRemove(At(data, p), search_element(Self, v).idx))

\* the removal of v leaves bucket p satisfying the shrink predicate while the
\* collection keeps an element and has two buckets or more
MergeDue(v, p) ==
    /\ p >= 0
    /\ len > 1
    /\ Len(data) >= 2
    /\ shrink_strategy(Len(At(data, p)) - 1, p)

\* the buckets once bucket p, v taken from it, is merged with bucket q
MergedWith(v, p, q) ==
    IF q > p
    THEN VecRemove(SetAt(AfterTaking(v, p), p, At(AfterTaking(v, p), p) \o At(data, q)), q)
    ELSE VecRemove(SetAt(AfterTaking(v, p), q, At(data, q) \o At(AfterTaking(v, p), p)), p)

\* C23: when a removal leaves bucket p satisfying the shrink predicate and
\* there are two buckets or more, bucket p is merged with its right neighbour
\* if it is the first bucket, with its left neighbour if it is the last, and
\* otherwise with the neighbour that holds fewer elements, the right one on a
\* tie; one bucket and one boundary value disappear. With one bucket no merge
\* runs.
C23_MergePartner ==
    \A v \in Values :
        LET p == RemovalBucket(v)
            out == remove(Self, v)
            q == IF p = 0 THEN 1
                 ELSE IF p = Len(data) - 1 THEN p - 1
                 ELSE IF Len(At(data, p - 1)) < Len(At(data, p + 1)) THEN p - 1
                 ELSE p + 1
        IN  /\ MergeDue(v, p) =>
                /\ out.s.data = MergedWith(v, p, q)
                /\ Len(out.s.data) = Len(data) - 1
                /\ Len(out.s.maxes) = Len(maxes) - 1
            /\ Len(data) = 1 => out.rebalanced # "shrink" /\ Len(out.s.data) <= 1

\* C23 witness: a removal from a middle bucket whose left neighbour holds
\* fewer elements than its right neighbour, merged to the left
C23_Witness ==
    \E v \in Values :
        LET p == RemovalBucket(v)
        IN  /\ MergeDue(v, p)
            /\ p >= 1
            /\ p + 1 < Len(data)
            /\ Len(At(data, p - 1)) < Len(At(data, p + 1))
            /\ remove(Self, v).s.data = MergedWith(v, p, p - 1)

\* C24: both predicates are evaluated at (bucket length, bucket position):
\* an insertion that puts an element into the bucket at position p splits it
\* exactly when the expand predicate holds for the bucket's new length and p,
\* and a removal from the bucket at position p of a collection with two
\* buckets or more merges it exactly when the shrink predicate holds for the
\* bucket's new length and p.
C24_PredicatesSeeBucketPosition ==
    \A v \in Values :
        LET found == search_element(Self, v)
            p == found.pos
            l == Len(At(data, p))
        IN  (Len(maxes) > 0 /\ ~found.panic) =>
                IF found.ok
                THEN (len > 1 /\ Len(maxes) > 1) =>
                         ((remove(Self, v).rebalanced = "shrink")
                              <=> shrink_strategy(l - 1, p))
                ELSE (insert(Self, v).rebalanced = "expand")
                         <=> expand_strategy(l + 1, p)

\* the call ran no rebalancing and left len, the number of buckets, every
\* bucket's length, the boundary values, the rank index and the rank of every
\* stored element as they were
SameShape(out) ==
    /\ out.rebalanced = "none"
    /\ out.s.len = len
    /\ Len(out.s.data) = Len(data)
    /\ \A i \in 0..(Len(data) - 1) : Len(At(out.s.data, i)) = Len(At(data, i))
    /\ out.s.maxes = maxes
    /\ out.s.index = index
    /\ \A w \in Elements : find(out.s, w) = find(Self, w)

\* C25: an update(v) that succeeds, and an insert_or_update(v) of a value
\* that is stored, run no rebalancing and leave len(), the number of buckets,
\* every bucket's length, the boundary values, the rank index and the rank of
\* every stored element unchanged.
C25_UpdateKeepsShape ==
    \A v \in Values :
        /\ update(Self, v).ret.kind = "Ok" => SameShape(update(Self, v))
        /\ v \in Elements => SameShape(insert_or_update(Self, v))

\* C26: a call that fails changes nothing: when insert returns
\* ElementAlreadyExist, when update returns ElementNotFound and when remove
\* returns None, the buckets, the boundary values, the rank index and len()
\* are what they were before the call.
C26_FailureChangesNothing ==
    \A v \in Values :
        /\ insert(Self, v).ret = ErrAlreadyExist(v) => insert(Self, v).s = Self
        /\ update(Self, v).ret = ErrNotFound(v) => update(Self, v).s = Self
        /\ remove(Self, v).ret = None => remove(Self, v).s = Self

\* C26 witness: a collection of several buckets on which an insert, an
\* update and a remove fail
C26_Witness ==
    /\ Len(data) >= 2
    /\ \E v \in Values : insert(Self, v).ret = ErrAlreadyExist(v)
    /\ \E v \in Values :
           /\ update(Self, v).ret = ErrNotFound(v)
           /\ remove(Self, v).ret = None
           /\ remove(Self, v).s = Self

\* C27: a split or a merge changes only the grouping: the concatenation of
\* the buckets and len() are the same right before and right after expand or
\* shrink runs, in both order directions.
C27_RebalancingKeepsContent ==
    \A v \in Values :
        LET found == search_element(Self, v)
            placed == SetAt(data, found.pos,
                            VecInsert(At(data, found.pos), found.idx, v))
        IN  /\ \A process_type \in {"Insert", "InsertOrUpdate"} :
                   process_element(Self, v, process_type).rebalanced = "expand" =>
                       /\ Flatten(process_element(Self, v, process_type).s.data)
                              = Flatten(placed)
                       /\ process_element(Self, v, process_type).s.len = len + 1
            /\ remove(Self, v).rebalanced = "shrink" =>
                   /\ Flatten(remove(Self, v).s.data)
                          = Flatten(AfterTaking(v, found.pos))
                   /\ remove(Self, v).s.len = len - 1

\* C27 witness: a descending collection of several buckets in which one
\* insertion splits a bucket and one removal merges two
C27_Witness ==
    /\ order_type = "Desc"
    /\ Len(data) >= 2
    /\ \E v \in Values : insert(Self, v).rebalanced = "expand"
    /\ \E v \in Values :
           /\ remove(Self, v).rebalanced = "shrink"
           /\ Flatten(remove(Self, v).s.data)
                  = Flatten(AfterTaking(v, search_element(Self, v).pos))

\* the values held by the bucket at position i
BucketSet(i) == {At(data, i)[k] : k \in DOMAIN At(data, i)}

\* C28: in ascending mode, after any sequence of insert, insert_or_update,
\* update and remove calls, the boundary values are strictly increasing,
\* maxes[i] is greater than or equal to every element of bucket i and less
\* than every element of bucket i + 1, and no bucket other than the one the
\* boundary search chooses holds the value searched for.
C28_AscBoundariesSeparate ==
    order_type = "Asc" =>
        /\ len > 0 => Len(maxes) = Len(data)
        /\ \A i \in 0..(Len(maxes) - 2) : At(maxes, i) < At(maxes, i + 1)
        /\ \A i \in 0..(Len(maxes) - 1) :
               /\ \A x \in BucketSet(i) : At(maxes, i) >= x
               /\ i + 1 < Len(data) => \A x \in BucketSet(i + 1) : At(maxes, i) < x
        /\ \A v \in Values :
               ~search_element(Self, v).panic =>
                   \A i \in 0..(Len(data) - 1) :
                       v \in BucketSet(i) => i = search_element(Self, v).pos

\* C28 witness: an ascending collection of three buckets, one of which has
\* lost its last element, so that its boundary value is no longer stored
C28_Witness ==
    /\ order_type = "Asc"
    /\ Len(data) >= 3
    /\ StaleBoundary
    /\ \E i \in 0..(Len(data) - 2) :
           /\ At(maxes, i) \notin BucketSet(i)
           /\ \A x \in BucketSet(i + 1) : At(maxes, i) < x

\* C29: once next() has returned None, every later next() on the same
\* iterator returns None too: it neither yields an element nor aborts, with
\* one bucket and with several.
C29_IterIsFused ==
    \A id \in IterIds :
        (iters[id].live /\ iters[id].ended) => next(data, iters[id]).ret = None

====
